---- MODULE Spec2Model ----
(***************************************************************************)
(* The adc1_scan example of the STM8 header package: main() of             *)
(* examples/adc1_scan/main.c (the foreground reporting loop), the TIM4     *)
(* update interrupt with its sampling handler, and the ADC1 and TIM4       *)
(* hardware the two talk to.                                               *)
(*                                                                         *)
(* The foreground runs main() one statement at a time.  A read of the      *)
(* 32-bit g_millis by the 8-bit CPU is a sequence of byte loads; the       *)
(* interrupt may be taken between any two foreground steps.                *)
(***************************************************************************)
EXTENDS Integers, Sequences, FiniteSets, TLC

\* ---------------------------------------------------------------- constants

\* number of analog channels AIN0..AIN3 printed by main()
NumChannels == 4

\* nextPrint += 500
PrintInterval == 500

\* g_millis and nextPrint are 32 bit wide (uint32_t nextPrint, "%ld")
MillisBytes == 4

\* width of one memory access of the CPU (uint8_t registers)
ByteBits == 8

\* the last character of the format strings of lines 97 to 100: ' '
Space == 32

\* the last character of the format string of line 101: '\n'
LineBreak == 10

\* the test pin of adc1_scan: sfr_PORTC.ODR.ODR5
TestPin == 5

\* the value of a port's output data register after reset
sfr_PORT_ODR_RESET_VALUE == 0

\* for (i=0; i<300000L; i++) of the blink example
DelayCount == 300000

\* ------------------------------------------------------------------- bounds

\* timer update events considered in the interleaving specification
MaxTicks == 6

\* timer update events considered in the timing specification (0..1000 and
\* a little beyond the third deadline)
TimingTicks == 1001

\* timer update events between two short foreground steps in the timing
\* specification (a printf through the UART lasts for any number of them)
MaxPreempt == 1

\* reports considered in one run
MaxReports == 4

\* timer update events left before the tick counter wraps, where the
\* wraparound specification starts
WrapLead == 3

\* timer update events considered in the scan specification
ScanTicks == 4000

\* calls of toggle_pin() considered in the blink specification
MaxBlinks == 4

Pow2(n) == 2 ^ n

ByteRange == Pow2(ByteBits)

\* a 32 bit value is kept as its two 16 bit halves, which is how the 8 bit
\* CPU holds it in its index registers; each half is worth HalfRange
HalfBytes == MillisBytes \div 2

HalfRange == Pow2(ByteBits * HalfBytes)

Word(h, l) == [hi |-> h, lo |-> l]

\* the 32 bit value of a small natural number
ToWord(n) == Word(n \div HalfRange, n % HalfRange)

\* w + k modulo 2^32, for 0 <= k < 2^16
WordAdd(w, k) ==
  LET low == w.lo + k
  IN  Word((w.hi + (low \div HalfRange)) % HalfRange, low % HalfRange)

\* unsigned a >= b
WordGeq(a, b) == a.hi > b.hi \/ (a.hi = b.hi /\ a.lo >= b.lo)

\* byte k of w, byte 0 the lowest
WordByte(w, k) ==
  IF k < HalfBytes
  THEN (w.lo \div Pow2(ByteBits * k)) % ByteRange
  ELSE (w.hi \div Pow2(ByteBits * (k - HalfBytes))) % ByteRange

\* w with byte k, which is 0 in w, set to b
WordWithByte(w, k, b) ==
  IF k < HalfBytes
  THEN Word(w.hi, w.lo + b * Pow2(ByteBits * k))
  ELSE Word(w.hi + b * Pow2(ByteBits * (k - HalfBytes)), w.lo)

\* the value as a signed long (two's complement)
WordSigned(w) ==
  IF w.hi >= HalfRange \div 2
  THEN (w.hi - HalfRange) * HalfRange + w.lo
  ELSE w.hi * HalfRange + w.lo

\* bit k of the byte b
Bit(b, k) == (b \div Pow2(k)) % 2

\* the byte b with its bit k set to v
WithBit(b, k, v) == b - Bit(b, k) * Pow2(k) + v * Pow2(k)

\* bitwise exclusive or of the n low bits of a and b
RECURSIVE Xor(_, _, _)
Xor(a, b, n) ==
  IF n = 0
  THEN 0
  ELSE ((a + b) % 2) + 2 * Xor(a \div 2, b \div 2, n - 1)

\* the values of an 8 bit register, and the numbers of its bits
Bytes == 0 .. (ByteRange - 1)

Pins == 0 .. (ByteBits - 1)

Channels == 0 .. (NumChannels - 1)

\* analog levels a conversion can yield: 10 bit results whose two bytes
\* identify the conversion they come from
AinSamples == {0, 257}

NoChannel == 0 - 1

\* ------------------------------------------------------------------- state

VARIABLES
  pc,            \* position of main()
  rd,            \* the bytes of g_millis loaded so far by the read in progress
  tst,           \* the value of g_millis that passed the test of line 90
  nextPrint,     \* main()'s local deadline
  ODR,           \* sfr_PORTC.ODR, whose bit 5 is the test pin
  nReports,      \* reports started so far
  line,          \* the fields of the current report line printed so far,
                 \* with the slot values printed in them
  g_millis,      \* tick counter
  g_ADC_result,  \* channel result array
  cursor,        \* channel cursor of the sampling handler
  firings,       \* handler firings since startup
  events,        \* timer update events since startup
  arrived,       \* a timer event arrived during the firing in progress
  recent,        \* the slots written by the last NumChannels firings
  samples,       \* per channel, the firings that stored into its slot
  imask,         \* CPU interrupt mask (sim / rim / interrupt entry / iret)
  isr,           \* position of the TIM4 interrupt service routine
  nest,          \* service routines entered and not yet returned from
  uie,           \* TIM4 running with its update interrupt enabled
  uif,           \* TIM4_SR1.UIF, the pending update interrupt
  adcOn,         \* a conversion has been started
  adcCh,         \* ADC_CSR.CH, the channel being converted
  eoc,           \* ADC_CSR.EOC, conversion complete
  adcDR,         \* ADC_DRH:ADC_DRL, the result of the last completed conversion
  drSrc,         \* the channel adcDR was converted from
  ev,            \* what the last step did, for the properties to refer to
  burst,         \* timer events since the last foreground step
  env,           \* the environment of the run: horizon, timing, analog levels
  stopped,       \* the timebase has been stopped by DISABLE_INTERRUPTS()
  bpc,           \* blink: position of main()
  LED_PORT,      \* blink: the registers of the port of the LED (PORT_t)
  LED_PIN,       \* blink: the pin of the LED, set by the board selection
  loop_i,        \* blink: main()'s loop counter i
  odrLog         \* blink: LED_PORT.ODR when the loop was entered and after
                 \* each call of toggle_pin()

vars == << pc, rd, tst, nextPrint, ODR, nReports, line, g_millis,
           g_ADC_result,
           cursor, firings, events, arrived, recent, samples, imask, isr,
           nest, uie, uif, adcOn, adcCh, eoc, adcDR, drSrc, ev, burst, env,
           stopped, bpc, LED_PORT, LED_PIN, loop_i, odrLog >>

fgVars == << pc, rd, tst, nextPrint, ODR, nReports, line >>

sharedVars == << g_millis, g_ADC_result, cursor >>

ghostVars == << firings, recent, samples >>

timerGhost == << events, arrived >>

timVars == << uie, uif >>

adcVars == << adcOn, adcCh, eoc, adcDR, drSrc >>

\* the state of the blink example
blinkVars == << bpc, LED_PORT, LED_PIN, loop_i, odrLog >>

\* the state of the adc1_scan example
scanVars ==
  << fgVars, sharedVars, ghostVars, timerGhost, imask, isr, nest, timVars,
     adcVars, ev, burst, env, stopped >>

\* ------------------------------------------------------------------ events

NoValue == Word(0 - 1, 0 - 1)

\* an event of kind k with the small numbers a, b and c
Event(k, a, b, c) ==
  [kind |-> k, a |-> a, b |-> b, c |-> c, w |-> NoValue, v |-> NoValue]

\* an event of kind k with the number b and the 32 bit values w and v
WordEvent(k, b, w, v) ==
  [kind |-> k, a |-> 0, b |-> b, c |-> 0, w |-> w, v |-> v]

NoEvent == Event("none", 0, 0, 0)

NoRead == [order |-> "none", idx |-> 0, acc |-> Word(0, 0)]

\* a printed field of a report line: field 0 is the time, field i + 1 the
\* slot i; v is the slot value printed (0 for the time)
Field(f, v) == [f |-> f, v |-> v]

\* a position of main(): a statement, and for the prints the field printed
Pc(name) == << name, 0 >>

\* positions of main() while printf() of field k is sending through the UART
TxPc(k) == << "tx", k >>

\* positions of main() about to read g_ADC_result[i] for printf()
AinPc(i) == << "ain", i >>

TxPcs == { TxPc(k) : k \in 0 .. NumChannels }

\* ---------------------------------------------------------------- hardware

\* the TIM4 update interrupt is requested and the CPU accepts it
IrqPending == uif /\ uie /\ ~imask

\* the CPU executes main(): no service routine is active and none is due
FgRuns == nest = 0 /\ ~IrqPending

\* in a timed run the timer period is long compared with single
\* instructions, with the service routine and with a conversion; a printf()
\* through the UART lasts for any number of periods
TimerMayExpire ==
  /\ uie
  /\ events < env.horizon
  /\ (env.timed => /\ ~uif
                   /\ nest = 0
                   /\ eoc
                   /\ (burst < env.preempt \/ pc \in TxPcs))

\* TIM4 reaches its reload value: the update flag UIF is set (it is one bit:
\* an event that finds it set leaves no trace of its own)
TimerEvent ==
  /\ TimerMayExpire
  /\ uif' = TRUE
  /\ ev' = Event("tick", IF uif THEN 1 ELSE 0, 0, 0)
  /\ burst' = IF env.timed /\ pc \notin TxPcs THEN burst + 1 ELSE burst
  /\ events' = events + 1
  /\ arrived' = (arrived \/ nest > 0)
  /\ UNCHANGED << fgVars, sharedVars, ghostVars, imask, isr, nest, uie,
                  adcVars, env, stopped >>
  /\ UNCHANGED blinkVars

\* the conversion in progress completes: EOC is set and the data register
\* takes the level of the converted channel
ADC_complete ==
  /\ adcOn
  /\ ~eoc
  /\ \E level \in env.levels :
       /\ adcDR' = level
       /\ drSrc' = adcCh
  /\ eoc' = TRUE
  /\ ev' = NoEvent
  /\ UNCHANGED << fgVars, sharedVars, ghostVars, timerGhost, imask, isr, nest,
                  timVars, adcOn, adcCh, burst, env, stopped >>
  /\ UNCHANGED blinkVars

\* start a conversion of channel ch: the channel is selected, EOC is cleared;
\* the data register keeps the last completed result until this one completes
ADC_startConversion(ch) ==
  /\ adcOn' = TRUE
  /\ adcCh' = ch
  /\ eoc' = FALSE
  /\ UNCHANGED << adcDR, drSrc >>

\* ------------------------------------------------- the sampling handler

\* a cursor that runs on past the last channel
NextCursor_noWrap(c) == c + 1

\* a cursor that moves on by two channels
NextCursor_byTwo(c) == (c + 2) % NumChannels

\* a cursor that turns round one channel early
NextCursor_skipsLast(c) == (c + 1) % (NumChannels - 1)

\* (c) advance the channel cursor modulo N
NextCursor(c) == (c + 1) % NumChannels

\* (e) increment the tick counter, which wraps on overflow
NextMillis(m) ==
  IF m.lo = HalfRange - 1
  THEN Word((m.hi + 1) % HalfRange, 0)
  ELSE Word(m.hi, m.lo + 1)

\* a handler that copies the value read into every slot
StoreResult_allSlots(arr, c, v) == [i \in DOMAIN arr |-> v]

\* (b) store the value read into the slot of the cursor
StoreResult(arr, c, v) == [arr EXCEPT ![c] = v]

\* (a) read the data register, whatever it holds
ReadConversion == adcDR

\* the slots written by the last NumChannels firings, the newest last
Remember(h, c) ==
  LET all == Append(h, c)
  IN  IF Len(all) > NumChannels THEN Tail(all) ELSE all

\* a handler that waits until the conversion is complete
HandlerProceeds_whenComplete == eoc

\* the handler does not test EOC: it proceeds whatever the state of the
\* conversion
HandlerProceeds == TRUE

\* the handler body, steps (a) to (e)
SamplingHandler ==
  /\ g_ADC_result' = StoreResult(g_ADC_result, cursor, ReadConversion)
  /\ cursor' = NextCursor(cursor)
  /\ ADC_startConversion(NextCursor(cursor))
  /\ g_millis' = NextMillis(g_millis)

\* the CPU masks interrupts of the same level when it enters a service
\* routine and restores the mask with iret
MaskOnEntry == TRUE

\* TIM4 update interrupt: the CPU enters the service routine, which runs
\* the sampling handler
TIM4_ISR ==
  /\ IrqPending
  /\ HandlerProceeds
  /\ imask' = MaskOnEntry
  /\ nest' = nest + 1
  /\ isr' = "clear"
  /\ SamplingHandler
  /\ firings' = firings + 1
  /\ recent' = Remember(recent, cursor)
  /\ samples' = [samples EXCEPT ![cursor] = @ + 1]
  /\ ev' = Event("store", cursor, ReadConversion, drSrc)
  /\ arrived' = FALSE
  /\ UNCHANGED << fgVars, timVars, events, burst, env, stopped >>
  /\ UNCHANGED blinkVars

\* a service routine that also disables the update interrupt of TIM4
TIM4_ISR_clear_disablesTimer ==
  /\ isr = "clear"
  /\ uif' = FALSE
  /\ uie' = FALSE
  /\ isr' = "iret"
  /\ ev' = NoEvent
  /\ UNCHANGED << fgVars, sharedVars, ghostVars, timerGhost, imask, nest,
                  adcVars, burst, env, stopped >>
  /\ UNCHANGED blinkVars

\* a service routine that leaves TIM4_SR1.UIF as it is
TIM4_ISR_clear_keepsFlag ==
  /\ isr = "clear"
  /\ isr' = "iret"
  /\ ev' = NoEvent
  /\ UNCHANGED << fgVars, sharedVars, ghostVars, timerGhost, imask, nest,
                  timVars, adcVars, burst, env, stopped >>
  /\ UNCHANGED blinkVars

\* the service routine clears the pending condition TIM4_SR1.UIF
TIM4_ISR_clear ==
  /\ isr = "clear"
  /\ uif' = FALSE
  /\ isr' = "iret"
  /\ ev' = NoEvent
  /\ UNCHANGED << fgVars, sharedVars, ghostVars, timerGhost, imask, nest, uie,
                  adcVars, burst, env, stopped >>
  /\ UNCHANGED blinkVars

\* return from the service routine: the interrupt mask is restored
TIM4_ISR_iret ==
  /\ isr = "iret"
  /\ isr' = "idle"
  /\ nest' = nest - 1
  /\ imask' = FALSE
  /\ ev' = Event("iret", 0, 0, 0)
  /\ UNCHANGED << fgVars, sharedVars, ghostVars, timerGhost, timVars, adcVars,
                  burst, env, stopped >>
  /\ UNCHANGED blinkVars

\* --------------------------------------------------------- main(): set-up

\* a first deadline one interval after startup
InitialDeadline_firstInterval == PrintInterval

\* uint32_t nextPrint = 0
InitialDeadline == 0

\* a macro that leaves the interrupt mask as it is
DISABLE_INTERRUPTS_noEffect == imask' = imask

\* a statement that sets the test pin: ODR5 = 1
ToggleTestPin_setsPin(odr) == WithBit(odr, TestPin, 1)

\* sfr_PORTC.ODR.ODR5 ^= 1: the one bit field takes its value xor 1, the
\* other bits of the register keep theirs
ToggleTestPin(odr) == WithBit(odr, TestPin, Xor(Bit(odr, TestPin), 1, 1))

\* DISABLE_INTERRUPTS(): sim
DISABLE_INTERRUPTS == imask' = TRUE

\* ENABLE_INTERRUPTS(): rim
ENABLE_INTERRUPTS == imask' = FALSE

\* ADC1_start(): trigger the first measurement, of the cursor's channel
ADC1_start == ADC_startConversion(cursor)

\* TIM4_init(): start the timer with its update interrupt enabled
TIM4_init == uie' = TRUE /\ uif' = FALSE

\* a step of main(): the position moves on, the step ends a burst of timer
\* events, and nothing of the shared state is written
MainStep(from, to) ==
  /\ FgRuns
  /\ pc = from
  /\ pc' = to
  /\ burst' = 0
  /\ UNCHANGED << ghostVars, timerGhost, isr, nest, env, stopped >>
  /\ UNCHANGED blinkVars

\* line 63
Main_disableInterrupts ==
  /\ MainStep(Pc("sim"), Pc("cfg"))
  /\ DISABLE_INTERRUPTS
  /\ ev' = NoEvent
  /\ UNCHANGED sharedVars
  /\ UNCHANGED << rd, tst, nextPrint, ODR, nReports, line, timVars, adcVars >>

\* lines 66 to 71: clock divider and the test pin PC5 as push-pull output
Main_configure ==
  /\ MainStep(Pc("cfg"), Pc("adc_start"))
  /\ ev' = NoEvent
  /\ UNCHANGED sharedVars
  /\ UNCHANGED << rd, tst, nextPrint, ODR, nReports, line, imask, timVars,
                  adcVars >>

\* line 74
Main_ADC1_start ==
  /\ MainStep(Pc("adc_start"), Pc("tim_init"))
  /\ ADC1_start
  /\ ev' = NoEvent
  /\ UNCHANGED sharedVars
  /\ UNCHANGED << rd, tst, nextPrint, ODR, nReports, line, imask, timVars >>

\* line 77
Main_TIM4_init ==
  /\ MainStep(Pc("tim_init"), Pc("uart"))
  /\ TIM4_init
  /\ ev' = NoEvent
  /\ UNCHANGED sharedVars
  /\ UNCHANGED << rd, tst, nextPrint, ODR, nReports, line, imask, adcVars >>

\* line 80
Main_UART2_begin ==
  /\ MainStep(Pc("uart"), Pc("rim"))
  /\ ev' = NoEvent
  /\ UNCHANGED sharedVars
  /\ UNCHANGED << rd, tst, nextPrint, ODR, nReports, line, imask, timVars,
                  adcVars >>

\* line 83
Main_enableInterrupts ==
  /\ MainStep(Pc("rim"), Pc("test"))
  /\ ENABLE_INTERRUPTS
  /\ ev' = NoEvent
  /\ UNCHANGED sharedVars
  /\ UNCHANGED << rd, tst, nextPrint, ODR, nReports, line, timVars, adcVars >>

\* ------------------------------------------------ main(): reads of memory

\* a slot of g_ADC_result holds a 10 bit result in two bytes (DRH:DRL)
SlotBytes == 2

\* a slot read one byte at a time
SlotLoadBytes_single == SlotBytes \div 2

\* bytes one load of a slot takes: the slot is read as one machine word
SlotLoadBytes == 2

IsAinPc(p) == p[1] = "ain"

\* the object the read at position p reads
ReadSource(p) ==
  IF IsAinPc(p) THEN Word(0, g_ADC_result[p[2]]) ELSE g_millis

\* its size, and the size of one load of it, in bytes
ReadBytes(p) == IF IsAinPc(p) THEN SlotBytes ELSE MillisBytes

LoadBytes(p) == IF IsAinPc(p) THEN SlotLoadBytes ELSE 1

NumLoads(p) == ReadBytes(p) \div LoadBytes(p)

\* the order of the loads is the compiler's: lowest part first, or highest
LoadOrders(r) == IF r.idx = 0 THEN {"lsb", "msb"} ELSE {r.order}

\* acc with the bytes first .. first + n - 1 copied from the word src
RECURSIVE CopyBytes(_, _, _, _)
CopyBytes(acc, src, first, n) ==
  IF n = 0
  THEN acc
  ELSE CopyBytes(WordWithByte(acc, first, WordByte(src, first)), src,
                 first + 1, n - 1)

\* one more load of the read r in progress at position p, in order o
Load(r, o, p) ==
  LET w == LoadBytes(p)
      k == IF o = "lsb" THEN r.idx ELSE NumLoads(p) - 1 - r.idx
  IN  [order |-> o, idx |-> r.idx + 1,
       acc |-> CopyBytes(r.acc, ReadSource(p), k * w, w)]

\* (int) of a 16 bit slot value
IntCast(v) == IF v >= HalfRange \div 2 THEN v - HalfRange ELSE v

ReadPcs == {Pc("test"), Pc("time")} \cup { AinPc(i) : i \in Channels }

\* a load that is not the last one of its read
Main_load ==
  /\ pc \in ReadPcs
  /\ rd.idx < NumLoads(pc) - 1
  /\ MainStep(pc, pc)
  /\ \E o \in LoadOrders(rd) : rd' = Load(rd, o, pc)
  /\ ev' = NoEvent
  /\ UNCHANGED sharedVars
  /\ UNCHANGED << tst, nextPrint, ODR, nReports, line, imask, timVars,
                  adcVars >>

\* -------------------------------------------------- main(): the main loop

\* line 90: if (g_millis >= nextPrint), with the last load of g_millis
Main_test ==
  /\ rd.idx = NumLoads(pc) - 1
  /\ \E o \in LoadOrders(rd) :
       LET now == Load(rd, o, pc).acc
       IN  IF WordGeq(now, nextPrint)
           THEN /\ MainStep(Pc("test"), Pc("adv"))
                /\ tst' = now
                /\ ev' = NoEvent
           ELSE /\ MainStep(Pc("test"), Pc("test"))
                /\ tst' = NoValue
                /\ ev' = WordEvent("wait", 0, nextPrint, now)
  /\ rd' = NoRead
  /\ UNCHANGED sharedVars
  /\ UNCHANGED << nextPrint, ODR, nReports, line, imask, timVars, adcVars >>

\* a deadline that restarts from the tick just read: now + 500
AdvanceDeadline_fromNow(deadline, now) == WordAdd(now, PrintInterval)

\* a deadline that is left as it is
AdvanceDeadline_unchanged(deadline, now) == deadline

\* line 91: nextPrint += 500
AdvanceDeadline(deadline, now) == WordAdd(deadline, PrintInterval)

\* a main() that reports with interrupts disabled
Main_advance_masked ==
  /\ nReports < MaxReports
  /\ MainStep(Pc("adv"), Pc("time"))
  /\ nextPrint' = WordAdd(nextPrint, PrintInterval)
  /\ ODR' = ToggleTestPin(ODR)
  /\ nReports' = nReports + 1
  /\ DISABLE_INTERRUPTS
  /\ ev' = WordEvent("report", 0, nextPrint, tst)
  /\ UNCHANGED sharedVars
  /\ UNCHANGED << rd, tst, line, timVars, adcVars >>

\* a main() that restarts the tick counter with each report instead of
\* advancing its deadline
Main_advance_resetsTick ==
  /\ nReports < MaxReports
  /\ MainStep(Pc("adv"), Pc("time"))
  /\ g_millis' = Word(0, 0)
  /\ ODR' = ToggleTestPin(ODR)
  /\ nReports' = nReports + 1
  /\ ev' = WordEvent("report", 0, nextPrint, tst)
  /\ UNCHANGED << g_ADC_result, cursor >>
  /\ UNCHANGED << rd, tst, nextPrint, line, imask, timVars, adcVars >>

\* lines 91 and 94: advance the deadline, toggle the test pin
Main_advance ==
  /\ nReports < MaxReports
  /\ MainStep(Pc("adv"), Pc("time"))
  /\ nextPrint' = AdvanceDeadline(nextPrint, tst)
  /\ ODR' = ToggleTestPin(ODR)
  /\ nReports' = nReports + 1
  /\ ev' = WordEvent("report", 0, nextPrint, tst)
  /\ UNCHANGED sharedVars
  /\ UNCHANGED << rd, tst, line, imask, timVars, adcVars >>

\* line 97: printf("  time: %ld  ", g_millis), with the last load
Main_printTime ==
  /\ rd.idx = NumLoads(pc) - 1
  /\ MainStep(Pc("time"), TxPc(0))
  /\ \E o \in LoadOrders(rd) :
       ev' = WordEvent("print", WordSigned(Load(rd, o, pc).acc), tst, NoValue)
  /\ rd' = NoRead
  /\ tst' = NoValue
  /\ line' = Append(line, Field(0, 0))
  /\ UNCHANGED sharedVars
  /\ UNCHANGED << nextPrint, ODR, nReports, imask, timVars, adcVars >>

\* a main() that clears a slot once it has printed it
Main_printAin_clearsSlot(i) ==
  /\ rd.idx = NumLoads(pc) - 1
  /\ MainStep(AinPc(i), TxPc(i + 1))
  /\ \E o \in LoadOrders(rd) :
       LET value == IntCast(Load(rd, o, pc).acc.lo)
       IN  /\ ev' = Event("print", i + 1, value, 0)
           /\ line' = Append(line, Field(i + 1, value))
  /\ rd' = NoRead
  /\ g_ADC_result' = [g_ADC_result EXCEPT ![i] = 0]
  /\ UNCHANGED << g_millis, cursor >>
  /\ UNCHANGED << tst, nextPrint, ODR, nReports, imask, timVars, adcVars >>

\* lines 98 to 101: printf("  AINi: %d  ", (int) (g_ADC_result[i]))
Main_printAin(i) ==
  /\ rd.idx = NumLoads(pc) - 1
  /\ MainStep(AinPc(i), TxPc(i + 1))
  /\ \E o \in LoadOrders(rd) :
       LET value == IntCast(Load(rd, o, pc).acc.lo)
       IN  /\ ev' = Event("print", i + 1, value, 0)
           /\ line' = Append(line, Field(i + 1, value))
  /\ rd' = NoRead
  /\ UNCHANGED sharedVars
  /\ UNCHANGED << tst, nextPrint, ODR, nReports, imask, timVars, adcVars >>

\* a report without the field of AIN1
AfterField_skipsAin1(k) ==
  IF k = 1 THEN AinPc(2) ELSE IF k < NumChannels THEN AinPc(k) ELSE Pc("test")

\* the statement after the printf() of field k (lines 97 to 101): the
\* printf() of the next slot, or after the last one the test of the loop
AfterField(k) == IF k < NumChannels THEN AinPc(k) ELSE Pc("test")

\* the result of an output sink that did not take the byte
SinkError == 0 - 1

\* UART2_write(): the output sink, which takes the byte or fails
UART2_write(byte, accepted) == IF accepted THEN byte ELSE SinkError

\* a putchar() that returns what the sink returned
putchar_returnsSinkResult(data, accepted) ==
  [sent |-> << data >>, ret |-> UART2_write(data, accepted)]

\* lines 42 to 52: UART2_write(data); return(data); what the sink does
\* with the byte is not looked at
putchar(data, accepted) == [sent |-> << data >>, ret |-> data]

\* the one byte handed to the sink, if it is one
SoleWrite(sent) == IF Len(sent) = 1 THEN sent[1] ELSE SinkError

\* the last byte printf() sends for field k
LastByte(k) == IF k < NumChannels THEN Space ELSE LineBreak

\* printf() returns when its last call of putchar() has returned; the last
\* byte of the last field is the line break
Main_printfReturns ==
  /\ pc \in TxPcs
  /\ MainStep(pc, AfterField(pc[2]))
  /\ line' = IF pc[2] < NumChannels THEN line ELSE << >>
  /\ \E accepted \in BOOLEAN :
       LET r == putchar(LastByte(pc[2]), accepted)
       IN  ev' = Event(IF accepted THEN "putchar" ELSE "putchar_lost",
                       LastByte(pc[2]), r.ret, SoleWrite(r.sent))
  /\ UNCHANGED sharedVars
  /\ UNCHANGED << rd, tst, nextPrint, ODR, nReports, imask, timVars,
                  adcVars >>

\* the statements of the main loop, between which a call can be made
LoopPcs ==
  {Pc("test"), Pc("adv"), Pc("time")} \cup { AinPc(i) : i \in Channels }

\* the timebase is stopped from the foreground, between two statements of
\* the main loop: DISABLE_INTERRUPTS() keeps the CPU from taking the TIM4
\* interrupt from then on
Main_stop ==
  /\ ~stopped
  /\ FgRuns
  /\ pc \in LoopPcs
  /\ rd = NoRead
  /\ DISABLE_INTERRUPTS
  /\ stopped' = TRUE
  /\ ev' = Event("stop", 0, 0, 0)
  /\ UNCHANGED sharedVars
  /\ UNCHANGED << fgVars, ghostVars, timerGhost, isr, nest, timVars, adcVars,
                  burst, env >>
  /\ UNCHANGED blinkVars

\* ------------------------------------------------------ the blink example

\* the registers of a port (PORT_t), one byte each
Port(odr, idr, ddr, cr1, cr2) ==
  [ODR |-> odr, IDR |-> idr, DDR |-> ddr, CR1 |-> cr1, CR2 |-> cr2]

\* a function that sets the pin: port->ODR.byte |= (1 << pin)
toggle_pin_setsPin(port, pin) == [port EXCEPT !.ODR = WithBit(@, pin, 1)]

\* lines 49 to 53: port->ODR.byte ^= (1 << pin), the result stored in the
\* uint8_t register
toggle_pin(port, pin) ==
  [port EXCEPT !.ODR = Xor(@, Pow2(pin) % ByteRange, ByteBits)]

\* a step of main() of the blink example
BlinkStep(from, to) ==
  /\ bpc = from
  /\ bpc' = to
  /\ UNCHANGED << LED_PIN, scanVars >>

\* lines 65 to 70: the clock divider, and the pin of the LED as push-pull
\* output: DDR, CR1 and CR2 are written whole with (uint8_t) (1 << LED_PIN)
Blink_configure ==
  /\ BlinkStep("cfg", "toggle")
  /\ LED_PORT' = [LED_PORT EXCEPT !.DDR = Pow2(LED_PIN) % ByteRange,
                                  !.CR1 = Pow2(LED_PIN) % ByteRange,
                                  !.CR2 = Pow2(LED_PIN) % ByteRange]
  /\ UNCHANGED << loop_i, odrLog >>

\* line 77: toggle_pin(&LED_PORT, LED_PIN)
Blink_toggle ==
  /\ Len(odrLog) <= MaxBlinks
  /\ BlinkStep("toggle", "delay")
  /\ LED_PORT' = toggle_pin(LED_PORT, LED_PIN)
  /\ odrLog' = Append(odrLog, LED_PORT'.ODR)
  /\ UNCHANGED loop_i

\* lines 80 and 81: for (i=0; i<300000L; i++) NOP()
Blink_delay ==
  /\ BlinkStep("delay", "toggle")
  /\ loop_i' = DelayCount
  /\ UNCHANGED << LED_PORT, odrLog >>

\* the blink example is not the program running
BlinkOff ==
  /\ bpc = "off"
  /\ LED_PORT = Port(0, 0, 0, 0, 0)
  /\ LED_PIN = 0
  /\ loop_i = 0
  /\ odrLog = << >>

\* ------------------------------------------------------- specifications

Env(h, t, l, s) ==
  [horizon |-> h, timed |-> t, preempt |-> MaxPreempt, levels |-> l,
   start |-> s]

\* the state at reset, before main() runs
Reset(e) ==
  /\ pc = Pc("sim")
  /\ rd = NoRead
  /\ tst = NoValue
  /\ nextPrint = ToWord(InitialDeadline)
  /\ ODR = sfr_PORT_ODR_RESET_VALUE
  /\ nReports = 0
  /\ line = << >>
  /\ g_millis = e.start
  /\ g_ADC_result = [c \in Channels |-> 0]
  /\ cursor = 0
  /\ firings = 0
  /\ events = 0
  /\ arrived = FALSE
  /\ recent = << >>
  /\ samples = [c \in Channels |-> 0]
  /\ imask \in BOOLEAN
  /\ isr = "idle"
  /\ nest = 0
  /\ uie = FALSE
  /\ uif = FALSE
  /\ adcOn = FALSE
  /\ adcCh = 0
  /\ eoc = FALSE
  /\ adcDR = 0
  /\ drSrc = NoChannel
  /\ ev = NoEvent
  /\ burst = 0
  /\ env = e
  /\ stopped = FALSE

Init == Reset(Env(MaxTicks, FALSE, AinSamples, Word(0, 0))) /\ BlinkOff

InitTiming == Reset(Env(TimingTicks, TRUE, {0}, Word(0, 0))) /\ BlinkOff

\* 2^32 modulo the print interval, and the first deadline past 2^32
ModulusRest ==
  ((HalfRange % PrintInterval) * (HalfRange % PrintInterval)) % PrintInterval

WrappedDeadline == PrintInterval - ModulusRest

\* main() waiting in its loop with the given deadline after the given number
\* of reports, the tick counter at e.start; the handler has fired once per
\* tick, so the cursor is the tick modulo N and the last N firings wrote the
\* N slots in turn
InLoop(e, deadline, reports) ==
  /\ pc = Pc("test")
  /\ rd = NoRead
  /\ tst = NoValue
  /\ nextPrint = deadline
  /\ ODR = WithBit(sfr_PORT_ODR_RESET_VALUE, TestPin, reports % 2)
  /\ nReports = reports
  /\ line = << >>
  /\ g_millis = e.start
  /\ g_ADC_result = [c \in Channels |-> 0]
  /\ cursor = e.start.lo % NumChannels
  /\ firings = 0
  /\ events = 0
  /\ arrived = FALSE
  /\ recent = [i \in 1 .. NumChannels |-> (cursor + i - 1) % NumChannels]
  /\ samples = [c \in Channels |-> 0]
  /\ imask = FALSE
  /\ isr = "idle"
  /\ nest = 0
  /\ uie = TRUE
  /\ uif = FALSE
  /\ adcOn = TRUE
  /\ adcCh = cursor
  /\ eoc = FALSE
  /\ adcDR = 0
  /\ drSrc = (cursor + NumChannels - 1) % NumChannels
  /\ ev = NoEvent
  /\ burst = 0
  /\ env = e
  /\ stopped = FALSE

\* main() waiting in its loop WrapLead ticks before g_millis wraps, having
\* printed the report of the last deadline below 2^32
NearWrap(e) == InLoop(e, ToWord(WrappedDeadline), 0)

InitWrap ==
  /\ \/ Reset(Env(MaxTicks, FALSE, AinSamples, Word(0, 0)))
     \/ NearWrap(Env(MaxTicks, FALSE, {0},
                     Word(HalfRange - 1, HalfRange - WrapLead)))
  /\ BlinkOff

Next ==
  \/ TimerEvent
  \/ ADC_complete
  \/ TIM4_ISR
  \/ TIM4_ISR_clear
  \/ TIM4_ISR_iret
  \/ Main_disableInterrupts
  \/ Main_configure
  \/ Main_ADC1_start
  \/ Main_TIM4_init
  \/ Main_UART2_begin
  \/ Main_enableInterrupts
  \/ Main_load
  \/ Main_test
  \/ Main_advance
  \/ Main_printTime
  \/ \E i \in Channels : Main_printAin(i)
  \/ Main_printfReturns

\* every interleaving of the handler with main(), a few ticks long
Spec == Init /\ [][Next]_vars

\* the tick counter running from 0 beyond the third deadline
SpecTiming == InitTiming /\ [][Next]_vars

\* as Spec, and also the interleavings across the wraparound of the counter
SpecWrap == InitWrap /\ [][Next]_vars

\* main() waiting for the deadline of its second report, WrapLead ticks
\* before the tick counter reaches it
NearDeadline(e) == InLoop(e, ToWord(PrintInterval), 1)

InitLive ==
  /\ \/ Reset(Env(MaxTicks, FALSE, {0}, Word(0, 0)))
     \/ NearDeadline(Env(MaxTicks, FALSE, {0},
                         ToWord(PrintInterval - WrapLead)))
  /\ BlinkOff

\* a run in which the timer period is long against the instructions of
\* main() and printf() takes arbitrarily long: the timer expires only
\* while main() waits for the UART
SlowUart(h) == [Env(h, TRUE, {0}, Word(0, 0)) EXCEPT !.preempt = 0]

InitScan ==
  /\ \/ Reset(Env(MaxTicks, FALSE, AinSamples, Word(0, 0)))
     \/ Reset(SlowUart(ScanTicks))
  /\ BlinkOff

\* every interleaving for a few ticks, and a long run of the handler
SpecScan == InitScan /\ [][Next]_vars

\* every interleaving of the handler with main(), with a stop of the
\* timebase at any statement of the main loop
SpecStop == Init /\ [][Next \/ Main_stop]_vars

\* an instruction of the CPU: of main(), or of the service routine
CpuStep ==
  \/ TIM4_ISR
  \/ TIM4_ISR_clear
  \/ TIM4_ISR_iret
  \/ Main_disableInterrupts
  \/ Main_configure
  \/ Main_ADC1_start
  \/ Main_TIM4_init
  \/ Main_UART2_begin
  \/ Main_enableInterrupts
  \/ Main_load
  \/ Main_test
  \/ Main_advance
  \/ Main_printTime
  \/ \E i \in Channels : Main_printAin(i)
  \/ Main_printfReturns

\* every instruction moves main(), a read of main() or the service routine
cpuVars == << pc, rd, isr >>

\* the CPU never stops executing instructions, and the UART takes every
\* byte, so that printf() returns
SpecLive == InitLive /\ [][Next]_vars /\ WF_cpuVars(CpuStep)

\* a run in which the timer period is long against the instructions, the
\* service routine and a conversion
InitRecur == Reset(Env(MaxTicks, TRUE, {0}, Word(0, 0))) /\ BlinkOff

\* the CPU never stops executing instructions, the timer is free-running
\* and a conversion that was started completes
SpecRecur ==
  /\ InitRecur
  /\ [][Next]_vars
  /\ WF_cpuVars(CpuStep)
  /\ WF_events(TimerEvent)
  /\ WF_eoc(ADC_complete)

\* the last deadline below 2^32: the largest multiple of the print interval
LastDeadline == Word(HalfRange - 1, HalfRange - ModulusRest)

\* main() waiting for the last deadline below 2^32, WrapLead ticks before
\* the tick counter reaches it
NearOverflow(e) == InLoop(e, LastDeadline, 0)

InitOverflow ==
  /\ \/ Reset(Env(MaxTicks, FALSE, {0}, Word(0, 0)))
     \/ NearOverflow(Env(MaxTicks, FALSE, {0},
                         Word(HalfRange - 1,
                              HalfRange - ModulusRest - WrapLead)))
  /\ BlinkOff

\* every interleaving for a few ticks, from reset and across the overflow
\* of nextPrint += 500
SpecOverflow == InitOverflow /\ [][Next]_vars

\* the blink example started with any content of the output register, any
\* levels at the pins, and the LED at any pin of the port
InitBlink ==
  /\ Reset(Env(0, FALSE, {0}, Word(0, 0)))
  /\ bpc = "cfg"
  /\ LED_PIN \in Pins
  /\ LED_PORT \in { Port(o, d, 0, 0, 0) : o \in Bytes,
                                           d \in {0, ByteRange - 1} }
  /\ loop_i = 0
  /\ odrLog = << LED_PORT.ODR >>

NextBlink ==
  \/ Blink_configure
  \/ Blink_toggle
  \/ Blink_delay

\* main() of the blink example
SpecBlink == InitBlink /\ [][NextBlink]_vars

\* the positions of main() before its loop
SetupPcs ==
  {Pc("sim"), Pc("cfg"), Pc("adc_start"), Pc("tim_init"), Pc("uart"),
   Pc("rim")}

\* ------------------------------------------------------------------ claims

\* C1: after M firings of the sampling handler the tick counter equals its
\* start value plus M modulo 2^32, in every interleaving with main().
C1_TickCountsFirings == g_millis = WordAdd(env.start, firings)

\* C1 witness: the counter has wrapped, after firings interleaved with a
\* report of main().
C1_Witness ==
  /\ env.start.hi = HalfRange - 1
  /\ firings = WrapLead + 1
  /\ g_millis = Word(0, 1)
  /\ nReports >= 1

C10_DeadlineAdvancesByInterval ==
  /\ (ev.kind = "report" => nextPrint = WordAdd(ev.w, PrintInterval))
  /\ (ev.kind = "wait" => ev.w = nextPrint /\ ~WordGeq(ev.v, ev.w))
  /\ (pc = Pc("adv") => WordGeq(tst, nextPrint))

\* C10 witness: the loop was delayed by more than one interval: it starts the
\* report of deadline 500 on a read of 1000 or more, and the new deadline
\* 1000 has been reached already.
C10_Witness ==
  /\ ev.kind = "report"
  /\ ev.w = ToWord(PrintInterval)
  /\ WordGeq(ev.v, ToWord(2 * PrintInterval))
  /\ nextPrint = ToWord(2 * PrintInterval)
  /\ WordGeq(g_millis, nextPrint)

\* the values a slot can hold: a sample stored whole, or the initial 0
WholeValues == { IntCast(v) : v \in AinSamples \cup {0} }

C4_WindowCoversAllSlots ==
  Len(recent) = NumChannels =>
    { recent[i] : i \in 1 .. NumChannels } = Channels

\* C4 witness: a window that does not start at slot 0.
C4_Witness ==
  /\ Len(recent) = NumChannels
  /\ recent[1] = 2
  /\ firings = NumChannels + 2

\* C5: a step of main() changes none of g_millis, g_ADC_result and the
\* cursor; each of their changes is made by the entry of a handler firing.
C5_OnlyHandlerWritesShared ==
  [][ /\ (sharedVars' # sharedVars => firings' = firings + 1 /\ nest' = nest + 1)
      /\ (fgVars' # fgVars => sharedVars' = sharedVars) ]_vars

\* C5 witness: main() has printed a whole report, the last field included,
\* while the handler fired.
C5_Witness ==
  /\ ev.kind = "print"
  /\ ev.a = NumChannels
  /\ nReports = 1
  /\ firings >= 2

C7_AsStated == ev.kind = "store" => ev.c = ev.a

\* C8 as stated: the handler is never re-entered, no step of main() runs
\* during a firing, and a timer event that arrives during a firing is still
\* pending when the firing returns.
C8_AsStated ==
  /\ nest <= 1
  /\ (ev.kind \in {"report", "print", "wait"} => nest = 0)
  /\ ((ev.kind = "iret" /\ arrived) => uif)

\* the pending flag belongs to an event no firing has started to service
PendingUnserviced == uif /\ isr # "clear"

C11_ReportsOncePerDeadline ==
  /\ \A k \in 0 .. (MaxReports - 1) :
       (nReports = k /\ pc = Pc("test") /\ WordGeq(g_millis, nextPrint))
         ~> (nReports = k + 1 /\ pc = Pc("test")
             /\ nextPrint = ToWord(PrintInterval * (k + 1)))
  /\ [][IF nReports' # nReports
        THEN /\ nReports' = nReports + 1
             /\ pc = Pc("adv")
             /\ ev'.kind = "report"
             /\ ev'.w = nextPrint
             /\ nextPrint' # nextPrint
        ELSE nextPrint' = nextPrint]_<< nReports, nextPrint >>
  /\ []<>(pc = Pc("test"))

\* C11 witness: the tick counter reached the deadline 500 while the loop
\* waited; the loop has reported once for it and waits for deadline 1000.
C11_Witness ==
  /\ ev.kind = "wait"
  /\ nReports = 2
  /\ nextPrint = ToWord(2 * PrintInterval)
  /\ WordGeq(g_millis, ToWord(PrintInterval))
  /\ firings >= WrapLead

PutcharKinds == {"putchar", "putchar_lost"}

\* the fields of a whole report line: time, AIN0, AIN1, AIN2, AIN3
FullLine == [k \in 1 .. (NumChannels + 1) |-> k - 1]

\* C13: the fields of a report are printed in the order time, AIN0, AIN1,
\* AIN2, AIN3, each once; the line break comes last, after AIN3; no field
\* of the next report is printed before it.
C13_FieldsInOrder ==
  /\ [](/\ Len(line) <= Len(FullLine)
        /\ \A k \in 1 .. Len(line) : line[k].f = FullLine[k]
        /\ (ev.kind = "print" => line[Len(line)].f = ev.a)
        /\ (ev.kind = "report" => line = << >>)
        /\ (ev.a = LineBreak /\ ev.kind \in PutcharKinds => line = << >>))
  /\ [][IF line' = << >>
        THEN /\ Len(line) = Len(FullLine)
             /\ ev'.kind \in PutcharKinds
             /\ ev'.a = LineBreak
        ELSE /\ Len(line') = Len(line) + 1
             /\ SubSeq(line', 1, Len(line)) = line
             /\ ev'.kind = "print"]_line

\* C13 witness: the second report has printed its last field AIN3, after
\* the line break of the first.
C13_Witness ==
  /\ Len(line) = Len(FullLine)
  /\ ev.kind = "print"
  /\ ev.a = NumChannels
  /\ nReports = 2

\* the positions of main() from the start of a report to its line break
ReportPcs ==
  {Pc("time")} \cup TxPcs \cup { AinPc(i) : i \in Channels }

\* C14: a report takes no snapshot: main() never masks the interrupt while
\* it reports, so a firing can come between any two of its slot reads, and
\* every slot value it prints is the value the slot holds at its own read.
C14_NoSnapshot ==
  /\ ((pc \in ReportPcs /\ nest = 0) => ~imask)
  /\ (ev.kind = "print" /\ ev.a >= 1 =>
        /\ ev.b = IntCast(g_ADC_result[ev.a - 1])
        /\ line[Len(line)].v = ev.b)

\* C14 witness: one report line with values of different scan rounds: it
\* printed for AIN0 the initial value, read before the first firing stored
\* 257 there, and prints for AIN3 the 257 that the fourth firing stored.
C14_Witness ==
  /\ ev.kind = "print"
  /\ ev.a = NumChannels
  /\ firings = NumChannels
  /\ line[2] = Field(1, 0)
  /\ g_ADC_result[0] = 257
  /\ line[NumChannels + 1] = Field(NumChannels, 257)

\* C15: the handler never waits for the conversion: whenever the interrupt
\* is due the firing can run at once, complete conversion or not; it
\* stores what the data register holds, advances the cursor, starts the
\* next conversion and increments the tick; and every firing returns.
C15_HandlerNeverWaits ==
  /\ [](IrqPending => ENABLED TIM4_ISR)
  /\ [][firings' # firings =>
          /\ g_ADC_result'[cursor] = adcDR
          /\ cursor' # cursor
          /\ adcCh' = cursor' /\ ~eoc'
          /\ g_millis' # g_millis]_<< firings, sharedVars >>
  /\ ((isr # "idle") ~> (isr = "idle"))

\* C15 witness: the second firing came before the conversion of channel 1
\* had completed: it stored the result of channel 0 that the data register
\* still held, and moved on.
C15_Witness ==
  /\ ev.kind = "store"
  /\ firings = 2
  /\ ev.a = 1
  /\ ev.c = 0
  /\ cursor = 2
  /\ adcCh = 2
  /\ g_millis = Word(0, 2)

\* C16: once main() has enabled interrupts the timer stays running with its
\* interrupt enabled, every firing returns with the interrupt mask clear,
\* and after each firing another one follows: the tick counter is
\* incremented again and again (as far as the run reaches).
C16_FiringsRecur ==
  /\ [](pc \notin SetupPcs => uie)
  /\ []((pc \notin SetupPcs /\ nest = 0) => ~imask)
  /\ \A n \in 0 .. (MaxTicks - 1) :
       (pc \notin SetupPcs /\ firings = n) ~> (firings = n + 1)
  /\ <>(g_millis = ToWord(MaxTicks))

\* C16 witness: a firing has returned and the next one is starting.
C16_Witness ==
  /\ ev.kind = "store"
  /\ firings = MaxTicks
  /\ g_millis = ToWord(MaxTicks)
  /\ uie

\* C17: the cursor is always one of 0 .. N-1; it changes only in a firing
\* of the handler, and every firing changes it from c to (c + 1) mod N.
C17_CursorCycles ==
  /\ [](cursor \in Channels)
  /\ [][/\ (cursor' # cursor => firings' = firings + 1 /\ nest' = nest + 1)
        /\ (firings' # firings => cursor' = (cursor + 1) % NumChannels)
       ]_<< cursor, firings >>

\* C17 witness: the fourth firing has taken the cursor from N-1 back to 0.
C17_Witness ==
  /\ ev.kind = "store"
  /\ ev.a = NumChannels - 1
  /\ cursor = 0
  /\ firings = NumChannels

\* C18: once the timebase is stopped the tick counter, the cursor and the
\* slots never change again, and every read made after the stop returns
\* the value in memory: the tick the loop tests and prints, and the slot
\* values a report prints.
C18_StopFreezesShared ==
  /\ [][stopped => (stopped' /\ sharedVars' = sharedVars
                     /\ firings' = firings)]_<< stopped, sharedVars, firings >>
  /\ []((stopped /\ ev.kind = "wait") => ev.v = g_millis)
  /\ []((stopped /\ ev.kind = "print" /\ ev.a = 0) =>
          ev.b = WordSigned(g_millis))
  /\ []((stopped /\ ev.kind = "print" /\ ev.a >= 1) =>
          ev.b = IntCast(g_ADC_result[ev.a - 1]))

\* C18 witness: stopped after two firings, a third timer event has come
\* and is left pending; the loop has printed its report and reads the
\* tick 2 again.
C18_Witness ==
  /\ stopped
  /\ uif
  /\ events = 3
  /\ firings = 2
  /\ nReports = 1
  /\ ev.kind = "wait"
  /\ ev.v = Word(0, 2)
  /\ g_ADC_result[0] = 257

\* the state of the producer: the shared variables, TIM4, ADC1 and the
\* interrupt state of the CPU
producerVars == << sharedVars, timVars, adcVars, imask, isr, nest >>

\* C19: nothing flows from the consumer to the producer.  A step of the
\* main loop changes nothing of the producer's state; the main loop never
\* runs while the update interrupt is requested, so it cannot delay a
\* firing; and what a firing does to the tick counter, the cursor and the
\* slots is determined by their values and the data register alone.  So
\* the values they take follow from the timer events and the conversion
\* results, whatever the loop does.
C19_NoFeedback ==
  /\ [][(pc \notin SetupPcs /\ fgVars' # fgVars) =>
          /\ producerVars' = producerVars
          /\ ~(uif /\ uie)]_<< fgVars, producerVars >>
  /\ [][firings' # firings =>
          /\ fgVars' = fgVars
          /\ g_millis' = WordAdd(g_millis, 1)
          /\ cursor' = (cursor + 1) % NumChannels
          /\ g_ADC_result' =
               [c \in Channels |->
                  IF c = cursor THEN adcDR ELSE g_ADC_result[c]]
       ]_<< firings, sharedVars, fgVars >>

\* C19 witness: the third firing comes while main() is inside the printf()
\* of AIN1 of its report, and stores what the data register holds.
C19_Witness ==
  /\ ev.kind = "store"
  /\ pc = TxPc(2)
  /\ firings = 3
  /\ ev.b = 257
  /\ g_ADC_result[2] = 257
  /\ nReports = 1

\* C20: putchar(data) hands data to UART2_write() once and returns data,
\* whether the sink took the byte or failed; a failure of the sink changes
\* neither the deadline nor the sequence of the report: printf() returns
\* and main() goes on with the statement that follows.
C20_PutcharIgnoresSink ==
  /\ [](ev.kind \in PutcharKinds => (ev.b = ev.a /\ ev.c = ev.a))
  /\ [][ev'.kind \in PutcharKinds =>
          /\ pc \in TxPcs
          /\ pc' = (IF pc[2] < NumChannels THEN AinPc(pc[2]) ELSE Pc("test"))
          /\ nextPrint' = nextPrint
          /\ nReports' = nReports
          /\ sharedVars' = sharedVars]_<< pc, ev.kind >>

\* C20 witness: the sink failed on the line break of the second report;
\* putchar() returned the line break and main() is back at its test.
C20_Witness ==
  /\ ev.kind = "putchar_lost"
  /\ ev.a = LineBreak
  /\ ev.b = LineBreak
  /\ nReports = 2
  /\ pc = Pc("test")

\* "send result every 1s" (file header): the period of the reports, in
\* ticks of 1 ms
DocumentedPeriod == 1000

\* C21 as stated: a result is sent every 1 s: the deadline of the next report
\* is 1000 ticks after the deadline of this one, and the second report is
\* not started before the tick counter has reached 1000.
C21_AsStated ==
  /\ (ev.kind = "report" => nextPrint = WordAdd(ev.w, DocumentedPeriod))
  /\ (nReports >= 2 => WordGeq(g_millis, ToWord(DocumentedPeriod)))

\* C22 as stated: all of AIN0..AIN3 are scanned every 1 ms: every increment
\* of the tick counter comes with a refresh of all four slots, so each slot
\* has been written once per firing.
C22_AsStated == \A c \in Channels : samples[c] = firings

\* C23: main() has interrupts disabled from its first statement until all
\* of ADC1_start(), TIM4_init() and UART2_begin() have returned: during the
\* initialisation no firing occurs and the tick counter and the slots keep
\* their initial values; the timer is started after the first conversion,
\* the mask is cleared by line 83 alone, and every firing finds the first
\* conversion started.
C23_InitBeforeInterrupts ==
  /\ []((pc \in SetupPcs /\ pc # Pc("sim")) => imask)
  /\ [](pc \in SetupPcs =>
          /\ firings = 0
          /\ nest = 0
          /\ g_millis = env.start
          /\ g_ADC_result = [c \in Channels |-> 0])
  /\ [](uie => adcOn)
  /\ [][(imask /\ ~imask' /\ nest = 0) =>
          (pc = Pc("rim") /\ pc' = Pc("test") /\ adcOn /\ uie)]_imask
  /\ [][firings' # firings => (adcOn /\ uie /\ pc \notin SetupPcs)]_firings

\* C23 witness: the first firing, right after line 83: two timer events
\* came while the initialisation ran with interrupts disabled and were held
\* back; the conversion started by ADC1_start() has completed.
C23_Witness ==
  /\ ev.kind = "store"
  /\ firings = 1
  /\ events = 2
  /\ pc = Pc("test")
  /\ nReports = 0
  /\ ev.c = 0
  /\ g_millis = Word(0, 1)

\* C24 as stated: also where nextPrint + 500 overflows before g_millis
\* wraps, the loop emits at most one report per 500 ticks: in a run of
\* fewer than 500 ticks no second report is started.
C24_AsStated == nReports <= 1 + (firings \div PrintInterval)

\* C25 as stated: every value of g_millis that main() uses is a value the
\* counter has held: the value tested at line 90 and the value printed at
\* line 97 never exceed the counter (which only counts up in this run), and
\* no report is started for a deadline the counter has not reached.
C25_AsStated ==
  /\ (ev.kind \in {"wait", "report"} => WordGeq(g_millis, ev.v))
  /\ ((ev.kind = "print" /\ ev.a = 0) => ev.b <= WordSigned(g_millis))
  /\ (nReports >= 2 => WordGeq(g_millis, ToWord(PrintInterval)))

\* C26 as stated: the time a report prints is at least the value of the
\* tick counter that passed the test of the report and at least the
\* deadline that triggered it, and a slot value it prints is what the slot
\* holds when it is read, after the test.
C26_AsStated ==
  /\ ((ev.kind = "print" /\ ev.a = 0) =>
        /\ ev.b >= WordSigned(ev.w)
        /\ ev.b >= WordSigned(nextPrint) - PrintInterval)
  /\ ((ev.kind = "print" /\ ev.a >= 1) =>
        ev.b = IntCast(g_ADC_result[ev.a - 1]))

\* C27: bit 5 of sfr_PORTC.ODR is its reset level xor the parity of the
\* number of reports started, and the other seven bits keep their reset
\* levels; the register changes only in the step that starts a report, and
\* every such step inverts bit 5, so an iteration that waits leaves it.
C27_PinTogglesPerReport ==
  /\ [](/\ ODR \in Bytes
        /\ Bit(ODR, TestPin) =
             (Bit(sfr_PORT_ODR_RESET_VALUE, TestPin) + nReports) % 2
        /\ \A k \in Pins \ {TestPin} :
             Bit(ODR, k) = Bit(sfr_PORT_ODR_RESET_VALUE, k))
  /\ [](ev.kind = "wait" => pc = Pc("test"))
  /\ [][IF nReports' # nReports
        THEN /\ nReports' = nReports + 1
             /\ Bit(ODR', TestPin) = 1 - Bit(ODR, TestPin)
        ELSE ODR' = ODR]_<< ODR, nReports >>

\* C27 witness: the loop waits after its second report, the pin back at its
\* reset level.
C27_Witness ==
  /\ ev.kind = "wait"
  /\ nReports = 2
  /\ ODR = sfr_PORT_ODR_RESET_VALUE
  /\ WordGeq(g_millis, ToWord(PrintInterval))

\* the 32 bit value w modulo a small n
WordMod(w, n) == ((w.hi % n) * (HalfRange % n) + w.lo) % n

\* C28: the cursor equals the tick counter modulo N in every state, also
\* after the counter has wrapped, and the firing that raises the counter
\* from t to t + 1 writes slot t mod N.
C28_CursorFollowsTick ==
  /\ cursor = WordMod(g_millis, NumChannels)
  /\ (ev.kind = "store" =>
        ev.a = (WordMod(g_millis, NumChannels) + NumChannels - 1) % NumChannels)

\* C28 witness: the firing that wraps the tick counter from 2^32 - 1 to 0
\* has written slot 3 and left the cursor at 0.
C28_Witness ==
  /\ ev.kind = "store"
  /\ ev.a = NumChannels - 1
  /\ g_millis = Word(0, 0)
  /\ cursor = 0
  /\ firings > 0
  /\ env.start.hi = HalfRange - 1

\* C29: a call toggle_pin(port, pin) with pin in 0..7 inverts bit pin of the
\* output register, that is adds or takes away 2^pin, and leaves its other
\* seven bits and the registers IDR, DDR, CR1 and CR2; two calls in a row
\* restore the output register; every iteration of the main loop makes one
\* call, so the level of the LED alternates from iteration to iteration.
C29_TogglePinInvertsOneBit ==
  /\ [][Len(odrLog') # Len(odrLog) =>
          /\ LED_PIN \in Pins
          /\ LED_PORT'.ODR \in Bytes
          /\ Bit(LED_PORT'.ODR, LED_PIN) = 1 - Bit(LED_PORT.ODR, LED_PIN)
          /\ \A k \in Pins \ {LED_PIN} :
               Bit(LED_PORT'.ODR, k) = Bit(LED_PORT.ODR, k)
          /\ LED_PORT'.ODR =
               (IF Bit(LED_PORT.ODR, LED_PIN) = 1
                THEN LED_PORT.ODR - Pow2(LED_PIN)
                ELSE LED_PORT.ODR + Pow2(LED_PIN))
          /\ LED_PORT'.IDR = LED_PORT.IDR
          /\ LED_PORT'.DDR = LED_PORT.DDR
          /\ LED_PORT'.CR1 = LED_PORT.CR1
          /\ LED_PORT'.CR2 = LED_PORT.CR2]_<< odrLog, LED_PORT >>
  /\ [](\A n \in 1 .. (Len(odrLog) - 2) : odrLog[n + 2] = odrLog[n])
  /\ [](\A n \in 1 .. (Len(odrLog) - 1) :
          Bit(odrLog[n + 1], LED_PIN) = 1 - Bit(odrLog[n], LED_PIN))
  /\ [](LED_PORT.ODR = odrLog[Len(odrLog)])
  /\ [][bpc = "toggle" => Len(odrLog') = Len(odrLog) + 1]_bpc

\* C29 witness: the LED at pin 5 of a port whose output register held 0x81:
\* the second call has restored 0x81 after the first made it 0xA1, and the
\* delay that follows it has run.
C29_Witness ==
  /\ LED_PIN = 5
  /\ odrLog = << 129, 161, 129 >>
  /\ LED_PORT.ODR = 129
  /\ LED_PORT.DDR = 32
  /\ bpc = "toggle"
  /\ loop_i = DelayCount

====
